---- MODULE Spec2Model ----
(***************************************************************************)
(* Model of Template/Esri Python script/Telework.py: the geocode          *)
(* disambiguation (geocode_addresses), the work/home matcher               *)
(* (match_work_and_home) and the analysis job polling loop                 *)
(* (calculate_commute).                                                    *)
(***************************************************************************)
EXTENDS Integers, Sequences, FiniteSets, TLC

VARIABLES
    locations,          \* match_work_and_home: the pool given as argument
    idx,                \* position of the for loop in locations (1-based)
    pc,                 \* position inside match_work_and_home
    found_employees,    \* list, Telework.py:195
    origins,            \* list, Telework.py:196
    destinations,       \* list, Telework.py:197
    flagged_employees,  \* list, Telework.py:198
    matching_location,  \* index in locations of the counterpart found, 0 = None
    res_json,           \* geocode_addresses: what the geocoder request gave
    geo_pc,             \* position inside geocode_addresses
    geo_result,         \* what geocode_addresses returned
    token,              \* calculate_commute: parameter token, rebound at line 413
    job_id,             \* line 384, 0 before the job is submitted
    job_status,         \* lines 391 and 397
    job_pc,             \* position inside calculate_commute
    job_result,         \* what calculate_commute returned
    trace,              \* the calls made so far: requests, generate_token, sleep
    worker_info,        \* read_worker_info: the rows of the CSV, line 268
    row,                \* position of the for loop in worker_info (1-based)
    records_list,       \* list, line 269; in main the value returned, line 530
    read_pc,            \* position inside read_worker_info
    features,           \* write_output: parameter features; main: line 570
    rows,               \* list, line 436
    output_file,        \* what was written to the output file
    write_pc,           \* position inside write_output
    main_pc,            \* position inside main
    request             \* position of the for loop of line 551 in records_list

mvars == <<locations, idx, pc, found_employees, origins, destinations,
           flagged_employees, matching_location>>

gvars == <<res_json, geo_pc, geo_result>>

jvars == <<token, job_id, job_status, job_pc, job_result, trace>>

rvars == <<worker_info, row, records_list, read_pc>>

wvars == <<features, rows, output_file, write_pc>>

pvars == <<main_pc, request>>

xvars == <<rvars, wvars, pvars>>

vars == <<mvars, gvars, jvars, xvars>>

----------------------------------------------------------------------------
\* Constants of the program

WORK_ADDRESS_TYPE == "WORK"
HOME_ADDRESS_TYPE == "HOME"

----------------------------------------------------------------------------
\* Bounds of the model

\* longest pool of geocode results given to match_work_and_home
MaxPool == 3

\* employee identifiers (ResultID values); 0 is the identifier Python treats as false
EmployeeIds == {0, 1}

Addresses == {"a1", "a2"}

\* 0 is "no confidence"; 100 stands for every non-zero score
Scores == {0, 100}

AddressTypes == {WORK_ADDRESS_TYPE, HOME_ADDRESS_TYPE}

----------------------------------------------------------------------------
\* A geocode result is a Python dict.  keys is the set of keys present
\* ("ResultID" and "Employee_Address_Type" live inside "attributes"); a field
\* whose key is absent keeps a fixed filler value that is never read.
\* "location" holds the coordinates, which only the feature collection reads.

Loc(keys, rid, tag, addr, score) ==
    [keys |-> keys, rid |-> rid, tag |-> tag, addr |-> addr, score |-> score]

AllKeys ==
    {"attributes", "ResultID", "Employee_Address_Type", "address", "score", "location"}

WellFormed ==
    { Loc(AllKeys, r, t, a, s) :
        r \in EmployeeIds, t \in AddressTypes, a \in Addresses, s \in Scores }

\* records with one key missing (a missing "attributes" takes its two members along)
Malformed ==
    {Loc({"address", "score"}, 0, WORK_ADDRESS_TYPE, "a1", 100)}
    \cup {Loc(AllKeys \ {"ResultID"}, 0, WORK_ADDRESS_TYPE, "a1", 100)}
    \cup { Loc(AllKeys \ {"Employee_Address_Type"}, r, WORK_ADDRESS_TYPE, a, 100) :
             r \in EmployeeIds, a \in Addresses }
    \cup { Loc(AllKeys \ {"address"}, r, WORK_ADDRESS_TYPE, "a1", 100) :
             r \in EmployeeIds }
    \cup { Loc(AllKeys \ {"score"}, r, t, "a2", 100) :
             r \in EmployeeIds, t \in AddressTypes }

Locations == WellFormed \cup Malformed

----------------------------------------------------------------------------
\* Reading a dict: Has* is "the subscript does not raise KeyError"

HasResultID(l) == "attributes" \in l.keys /\ "ResultID" \in l.keys
HasAddressType(l) == "attributes" \in l.keys /\ "Employee_Address_Type" \in l.keys
HasAddress(l) == "address" \in l.keys
HasScore(l) == "score" \in l.keys

\* `x in list`
InList(x, list) == \E i \in 1..Len(list) : list[i] = x

\* `if employee:` -- the identifier 0 is false
Truthy(employee) == employee # 0

\* The search with the ResultID comparison of line 212 left out
RECURSIVE SearchFromAnyEmployee(_, _, _)
SearchFromAnyEmployee(pool, i, k) ==
    IF k > Len(pool) THEN 0
    ELSE LET l == pool[k] IN
         IF ~HasResultID(l) THEN -1
         ELSE IF ~HasAddress(l) THEN -1
         ELSE IF l.addr = pool[i].addr THEN SearchFromAnyEmployee(pool, i, k + 1)
         ELSE IF ~HasAddressType(l) THEN -1
         ELSE IF l.tag # pool[i].tag THEN k
         ELSE SearchFromAnyEmployee(pool, i, k + 1)

\* The search with the address-type comparison of lines 214-215 left out
RECURSIVE SearchFromAnyType(_, _, _)
SearchFromAnyType(pool, i, k) ==
    IF k > Len(pool) THEN 0
    ELSE LET l == pool[k] IN
         IF ~HasResultID(l) THEN -1
         ELSE IF l.rid # pool[i].rid THEN SearchFromAnyType(pool, i, k + 1)
         ELSE IF ~HasAddress(l) THEN -1
         ELSE IF l.addr = pool[i].addr THEN SearchFromAnyType(pool, i, k + 1)
         ELSE k

\* The generator expression of lines 208-218, evaluated from pool[k] on for
\* the record pool[i]: the index of the first counterpart, 0 when the
\* generator is exhausted (None), -1 when evaluating the condition raises.
\* The condition is an `and` chain, so a later key is read only when the
\* earlier comparisons are true.
RECURSIVE SearchFrom(_, _, _)
SearchFrom(pool, i, k) ==
    IF k > Len(pool) THEN 0
    ELSE LET l == pool[k] IN
         IF ~HasResultID(l) THEN -1
         ELSE IF l.rid # pool[i].rid THEN SearchFrom(pool, i, k + 1)
         ELSE IF ~HasAddress(l) THEN -1
         ELSE IF l.addr = pool[i].addr THEN SearchFrom(pool, i, k + 1)
         ELSE IF ~HasAddressType(l) THEN -1
         ELSE IF l.tag # pool[i].tag THEN k
         ELSE SearchFrom(pool, i, k + 1)

MatchingLocation(pool, i) == SearchFrom(pool, i, 1)

\* The loop body with `employee in found_employees` left out of line 203
OutcomeNoFoundCheck(pool, i, found, flagged) ==
    LET location == pool[i] IN
    IF ~HasResultID(location) THEN "raise_none"
    ELSE IF InList(location.rid, flagged) THEN "skip"
    ELSE IF ~HasAddressType(location) THEN "raise"
    ELSE IF ~HasAddress(location) THEN "raise"
    ELSE LET m == MatchingLocation(pool, i) IN
         IF m = -1 THEN "raise"
         ELSE IF m = 0 THEN "no_match"
         ELSE IF ~HasScore(location) THEN "raise"
         ELSE IF location.score = 0 THEN "zero_score"
         ELSE IF ~HasScore(pool[m]) THEN "raise"
         ELSE IF pool[m].score = 0 THEN "zero_score"
         ELSE "pair"

\* The loop body with `employee in flagged_employees` left out of line 203
OutcomeNoFlaggedCheck(pool, i, found, flagged) ==
    LET location == pool[i] IN
    IF ~HasResultID(location) THEN "raise_none"
    ELSE IF InList(location.rid, found) THEN "skip"
    ELSE IF ~HasAddressType(location) THEN "raise"
    ELSE IF ~HasAddress(location) THEN "raise"
    ELSE LET m == MatchingLocation(pool, i) IN
         IF m = -1 THEN "raise"
         ELSE IF m = 0 THEN "no_match"
         ELSE IF ~HasScore(location) THEN "raise"
         ELSE IF location.score = 0 THEN "zero_score"
         ELSE IF ~HasScore(pool[m]) THEN "raise"
         ELSE IF pool[m].score = 0 THEN "zero_score"
         ELSE "pair"

\* What one pass of the loop body does for pool[i], lines 200-248:
\*   "raise_none"  an exception before employee is bound (handler, line 245)
\*   "skip"        continue at line 204
\*   "raise"       an exception with employee bound (handler, lines 237-243)
\*   "no_match"    lines 220-226
\*   "zero_score"  lines 228-230
\*   "pair"        lines 232-233
Outcome(pool, i, found, flagged) ==
    LET location == pool[i] IN
    IF ~HasResultID(location) THEN "raise_none"
    ELSE IF InList(location.rid, found) \/ InList(location.rid, flagged) THEN "skip"
    ELSE IF ~HasAddressType(location) THEN "raise"
    ELSE IF ~HasAddress(location) THEN "raise"
    ELSE LET m == MatchingLocation(pool, i) IN
         IF m = -1 THEN "raise"
         ELSE IF m = 0 THEN "no_match"
         ELSE IF ~HasScore(location) THEN "raise"
         ELSE IF location.score = 0 THEN "zero_score"
         ELSE IF ~HasScore(pool[m]) THEN "raise"
         ELSE IF pool[m].score = 0 THEN "zero_score"
         ELSE "pair"

\* `if employee not in flagged_employees: flagged_employees.append(employee)`
FlagEmployee(employee, flagged) ==
    IF InList(employee, flagged) THEN flagged ELSE Append(flagged, employee)

\* The except handler, lines 236-248: flags the employee when it is bound and true
HandlerFlag(employee, flagged) ==
    IF Truthy(employee) THEN FlagEmployee(employee, flagged) ELSE flagged

----------------------------------------------------------------------------
\* the other components are not running

GeocodeIdle ==
    /\ res_json = [kind |-> "idle", locations |-> <<>>]
    /\ geo_pc = "idle"
    /\ geo_result = <<>>

CommuteIdle ==
    /\ token = 0
    /\ job_id = 0
    /\ job_status = ""
    /\ job_pc = "idle"
    /\ job_result = "none"
    /\ trace = <<>>

MatchIdle ==
    /\ locations = <<>>
    /\ idx = 1
    /\ pc = "idle"
    /\ found_employees = <<>>
    /\ origins = <<>>
    /\ destinations = <<>>
    /\ flagged_employees = <<>>
    /\ matching_location = 0

ReadIdle ==
    /\ worker_info = <<>>
    /\ row = 1
    /\ records_list = <<>>
    /\ read_pc = "idle"

\* What write_output did to the output file.  written: open(output_file, "w")
\* succeeded, which creates the file or empties the one that was there;
\* header, rows: the lines that reached the file whole; complete: every line
\* did.  A file that is written and not complete may end with a piece of the
\* next line.  NoFile: the file was not opened.
NoFile == [written |-> FALSE, complete |-> FALSE, header |-> <<>>, rows |-> <<>>]

WriteIdle ==
    /\ features = <<>>
    /\ rows = <<>>
    /\ output_file = NoFile
    /\ write_pc = "idle"

MainIdle ==
    /\ main_pc = "idle"
    /\ request = 1

OthersIdle == ReadIdle /\ WriteIdle /\ MainIdle

----------------------------------------------------------------------------
\* match_work_and_home as a state machine

InitMatch ==
    /\ \E n \in 0..MaxPool : locations \in [1..n -> Locations]
    /\ idx = 1
    /\ pc = "loop"
    /\ found_employees = <<>>
    /\ origins = <<>>
    /\ destinations = <<>>
    /\ flagged_employees = <<>>
    /\ matching_location = 0
    /\ GeocodeIdle
    /\ CommuteIdle
    /\ OthersIdle

AtRecord == pc = "loop" /\ idx <= Len(locations)

CurrentOutcome == Outcome(locations, idx, found_employees, flagged_employees)

\* line 202 raises: employee stays None, the handler only logs
RaiseUnbound ==
    /\ AtRecord
    /\ CurrentOutcome = "raise_none"
    /\ idx' = idx + 1
    /\ matching_location' = 0
    /\ UNCHANGED <<locations, pc, found_employees, origins, destinations,
                   flagged_employees>>
    /\ UNCHANGED <<gvars, jvars, xvars>>

\* lines 203-204
SkipResolved ==
    /\ AtRecord
    /\ CurrentOutcome = "skip"
    /\ idx' = idx + 1
    /\ matching_location' = 0
    /\ UNCHANGED <<locations, pc, found_employees, origins, destinations,
                   flagged_employees>>
    /\ UNCHANGED <<gvars, jvars, xvars>>

\* lines 206-228 raise with employee bound: handler lines 237-243
RaiseBound ==
    /\ AtRecord
    /\ CurrentOutcome = "raise"
    /\ flagged_employees' = HandlerFlag(locations[idx].rid, flagged_employees)
    /\ idx' = idx + 1
    /\ matching_location' = 0
    /\ UNCHANGED <<locations, pc, found_employees, origins, destinations>>
    /\ UNCHANGED <<gvars, jvars, xvars>>

\* lines 220-226
FlagNoMatch ==
    /\ AtRecord
    /\ CurrentOutcome = "no_match"
    /\ flagged_employees' = FlagEmployee(locations[idx].rid, flagged_employees)
    /\ idx' = idx + 1
    /\ matching_location' = 0
    /\ UNCHANGED <<locations, pc, found_employees, origins, destinations>>
    /\ UNCHANGED <<gvars, jvars, xvars>>

\* lines 228-230: the pair is flagged, control falls through to line 235
FlagZeroScore ==
    /\ AtRecord
    /\ CurrentOutcome = "zero_score"
    /\ flagged_employees' = FlagEmployee(locations[idx].rid, flagged_employees)
    /\ matching_location' = MatchingLocation(locations, idx)
    /\ pc' = "mark_found"
    /\ UNCHANGED <<locations, idx, found_employees, origins, destinations>>
    /\ UNCHANGED <<gvars, jvars, xvars>>

\* line 232
AppendOrigin ==
    /\ AtRecord
    /\ CurrentOutcome = "pair"
    /\ origins' = Append(origins, locations[idx])
    /\ matching_location' = MatchingLocation(locations, idx)
    /\ pc' = "append_destination"
    /\ UNCHANGED <<locations, idx, found_employees, destinations, flagged_employees>>
    /\ UNCHANGED <<gvars, jvars, xvars>>

\* line 233
AppendDestination ==
    /\ pc = "append_destination"
    /\ destinations' = Append(destinations, locations[matching_location])
    /\ pc' = "mark_found"
    /\ UNCHANGED <<locations, idx, found_employees, origins, flagged_employees,
                   matching_location>>
    /\ UNCHANGED <<gvars, jvars, xvars>>

\* line 235
MarkFound ==
    /\ pc = "mark_found"
    /\ found_employees' = Append(found_employees, locations[idx].rid)
    /\ idx' = idx + 1
    /\ matching_location' = 0
    /\ pc' = "loop"
    /\ UNCHANGED <<locations, origins, destinations, flagged_employees>>
    /\ UNCHANGED <<gvars, jvars, xvars>>

\* line 250
Return ==
    /\ pc = "loop"
    /\ idx > Len(locations)
    /\ pc' = "done"
    /\ UNCHANGED <<locations, idx, found_employees, origins, destinations,
                   flagged_employees, matching_location>>
    /\ UNCHANGED <<gvars, jvars, xvars>>

NextMatch ==
    \/ RaiseUnbound
    \/ SkipResolved
    \/ RaiseBound
    \/ FlagNoMatch
    \/ FlagZeroScore
    \/ AppendOrigin
    \/ AppendDestination
    \/ MarkFound
    \/ Return

SpecMatch == InitMatch /\ [][NextMatch]_vars

----------------------------------------------------------------------------
\* match_work_and_home as a function of the pool: the result of running the
\* loop from record i on, from the lists in st, to the return at line 250.

MatchState(found, orig, dest, flagged) ==
    [found |-> found, origins |-> orig, destinations |-> dest, flagged |-> flagged]

\* one whole pass of the loop body for pool[i]
LoopBody(pool, i, st) ==
    LET o == Outcome(pool, i, st.found, st.flagged)
        employee == pool[i].rid
    IN  CASE o = "raise_none" -> st
          [] o = "skip" -> st
          [] o = "raise" ->
                [st EXCEPT !.flagged = HandlerFlag(employee, st.flagged)]
          [] o = "no_match" ->
                [st EXCEPT !.flagged = FlagEmployee(employee, st.flagged)]
          [] o = "zero_score" ->
                [st EXCEPT !.flagged = FlagEmployee(employee, st.flagged),
                           !.found = Append(st.found, employee)]
          [] o = "pair" ->
                [st EXCEPT !.origins = Append(st.origins, pool[i]),
                           !.destinations =
                               Append(st.destinations, pool[MatchingLocation(pool, i)]),
                           !.found = Append(st.found, employee)]

RECURSIVE MatchFrom(_, _, _)
MatchFrom(pool, i, st) ==
    IF i > Len(pool) THEN st ELSE MatchFrom(pool, i + 1, LoopBody(pool, i, st))

match_work_and_home(pool) ==
    MatchFrom(pool, 1, MatchState(<<>>, <<>>, <<>>, <<>>))

----------------------------------------------------------------------------
\* geocode_addresses, lines 72-125

\* most candidates in one geocoder response
MaxCandidates == 3

\* ResultIDs the geocoder echoes: an employee number or an employee number + 1
RawIds == {0, 1, 2}

RawKeys == AllKeys \ {"Employee_Address_Type"}

\* what the geocoder returns for one record: no address-type tag yet
Candidates ==
    { Loc(RawKeys, r, "", a, s) : r \in RawIds, a \in Addresses, s \in Scores }
    \cup {Loc({"address", "score"}, 0, "", "a1", 100)}
    \cup {Loc(RawKeys \ {"ResultID"}, 0, "", "a1", 100)}

\* `d[EMPLOYEE_ADDRESS_TYPE_FIELD] = t` on the attributes of a result
SetAddressType(l, t) ==
    [l EXCEPT !.tag = t, !.keys = @ \cup {"Employee_Address_Type"}]

\* lines 111-118 with the comparison of line 111 turned around
AssignAddressTypesReversed(locs) ==
    IF locs[1].rid < locs[2].rid
    THEN << [SetAddressType(locs[1], HOME_ADDRESS_TYPE) EXCEPT !.rid = locs[2].rid],
            SetAddressType(locs[2], WORK_ADDRESS_TYPE) >>
    ELSE << SetAddressType(locs[1], WORK_ADDRESS_TYPE),
            [SetAddressType(locs[2], HOME_ADDRESS_TYPE) EXCEPT !.rid = locs[1].rid] >>

\* lines 111-118: tag the two results and give both the lower ResultID
AssignAddressTypes(locs) ==
    IF locs[1].rid > locs[2].rid
    THEN << [SetAddressType(locs[1], HOME_ADDRESS_TYPE) EXCEPT !.rid = locs[2].rid],
            SetAddressType(locs[2], WORK_ADDRESS_TYPE) >>
    ELSE << SetAddressType(locs[1], WORK_ADDRESS_TYPE),
            [SetAddressType(locs[2], HOME_ADDRESS_TYPE) EXCEPT !.rid = locs[1].rid] >>

\* The response of the request of lines 86-89:
\*   "exception"     the request or .json() raised
\*   "no_locations"  a JSON object without the key "locations"
\*   "locations"     a JSON object with the list res_json.locations
Responses ==
    {[kind |-> "exception", locations |-> <<>>],
     [kind |-> "no_locations", locations |-> <<>>]}
    \cup { [kind |-> "locations", locations |-> c] :
             c \in UNION { [1..n -> Candidates] : n \in 0..MaxCandidates } }

InitGeocode ==
    /\ res_json \in Responses
    /\ geo_pc = "request"
    /\ geo_result = <<>>
    /\ MatchIdle
    /\ CommuteIdle
    /\ OthersIdle

\* lines 90-94: the request raised, None is returned
GeocodeRequestFails ==
    /\ geo_pc = "request"
    /\ res_json.kind = "exception"
    /\ geo_pc' = "returned_none"
    /\ UNCHANGED <<res_json, geo_result, mvars, jvars, xvars>>

\* lines 121-125: no "locations" in the response, None is returned
GeocodeNoLocations ==
    /\ geo_pc = "request"
    /\ res_json.kind = "no_locations"
    /\ geo_pc' = "returned_none"
    /\ UNCHANGED <<res_json, geo_result, mvars, jvars, xvars>>

\* lines 100-104: an empty list, None is returned
GeocodeZeroLocations ==
    /\ geo_pc = "request"
    /\ res_json.kind = "locations"
    /\ Len(res_json.locations) = 0
    /\ geo_pc' = "returned_none"
    /\ UNCHANGED <<res_json, geo_result, mvars, jvars, xvars>>

\* lines 107-110 raise KeyError: nothing in geocode_addresses catches it
GeocodeTwoRaises ==
    /\ geo_pc = "request"
    /\ res_json.kind = "locations"
    /\ Len(res_json.locations) = 2
    /\ ~(HasResultID(res_json.locations[1]) /\ HasResultID(res_json.locations[2]))
    /\ geo_pc' = "raised"
    /\ UNCHANGED <<res_json, geo_result, mvars, jvars, xvars>>

\* lines 106-120: two results are tagged and returned
GeocodeTwoLocations ==
    /\ geo_pc = "request"
    /\ res_json.kind = "locations"
    /\ Len(res_json.locations) = 2
    /\ HasResultID(res_json.locations[1]) /\ HasResultID(res_json.locations[2])
    /\ geo_result' = AssignAddressTypes(res_json.locations)
    /\ geo_pc' = "returned"
    /\ UNCHANGED <<res_json, mvars, jvars, xvars>>

\* line 120: any other count is returned as the geocoder gave it
GeocodeOtherCount ==
    /\ geo_pc = "request"
    /\ res_json.kind = "locations"
    /\ Len(res_json.locations) \notin {0, 2}
    /\ geo_result' = res_json.locations
    /\ geo_pc' = "returned"
    /\ UNCHANGED <<res_json, mvars, jvars, xvars>>

NextGeocode ==
    \/ GeocodeRequestFails
    \/ GeocodeNoLocations
    \/ GeocodeZeroLocations
    \/ GeocodeTwoRaises
    \/ GeocodeTwoLocations
    \/ GeocodeOtherCount

SpecGeocode == InitGeocode /\ [][NextGeocode]_vars

\* what a call returns: kind "None", "raised" (an exception leaves the
\* function) or "list" with the list returned
Returned(kind, list) == [kind |-> kind, locations |-> list]

\* geocode_addresses as a function of the geocoder's response, lines 85-125
geocode_addresses(res) ==
    IF res.kind = "exception" THEN Returned("None", <<>>)
    ELSE IF res.kind = "no_locations" THEN Returned("None", <<>>)
    ELSE IF Len(res.locations) = 0 THEN Returned("None", <<>>)
    ELSE IF Len(res.locations) = 2
         THEN IF HasResultID(res.locations[1]) /\ HasResultID(res.locations[2])
              THEN Returned("list", AssignAddressTypes(res.locations))
              ELSE Returned("raised", <<>>)
    ELSE Returned("list", res.locations)

----------------------------------------------------------------------------
\* calculate_commute, lines 361-428

\* most status polls in one run of the model
MaxPolls == 5

\* the argument of time.sleep, lines 410 and 414
PollInterval == 3

\* the authentication-expiry code, line 412
TokenExpiredCode == 498

\* the token passed in by main; generate_token returns NoToken (None) when it
\* fails and otherwise a token never seen before; TokenRaised stands for
\* generate_token not returning at all (KeyError)
InitialToken == 0
NoToken == -1
TokenRaised == -2

\* every jobStatus other than Succeeded and Failed goes to the else of line 409
InProgressStatuses == {"esriJobSubmitted", "esriJobExecuting", "esriJobWaiting", "esriJobNew"}

\* error codes of a status response; 0 stands for an error object without "code"
ErrorCodes == {TokenExpiredCode, 500, 0}

\* one call made by calculate_commute:
\* op "submit" | "poll" | "fetch" (requests, with the token sent),
\* "generate_token" (token is the value returned, TokenRaised when it raised),
\* "sleep" (secs, token 0)
Call(op, tok, response, secs) ==
    [op |-> op, token |-> tok, response |-> response, secs |-> secs]

Polls == { k \in 1..Len(trace) : trace[k].op = "poll" }

CanPoll ==
    /\ job_pc = "poll"
    /\ job_status \in {"esriJobSubmitted", "esriJobExecuting"}
    /\ Cardinality(Polls) < MaxPolls

\* what the token service does with the request of line 56:
\*   "token"      answers {"token": ...}
\*   "error"      answers {"error": {"code": ..., "message": ...}}
\*   "exception"  the request or the decoding of its answer raises
\*   "malformed"  answers JSON with neither "token" nor a complete "error"
\*                ({}, or an error object lacking "code" or "message")
TokenAnswers == {"token", "error", "exception", "malformed"}

\* generate_token(username, password), lines 44-69: the n-th call returns a new
\* token (line 69), None when the request raises (lines 57-58) or the service
\* answers with a complete error (lines 60-67); lines 60-69 are outside the try,
\* so a malformed answer raises KeyError at line 62, 63 or 69
GenerateToken(answer) ==
    CASE answer = "token" ->
            1 + Cardinality({ k \in 1..Len(trace) : trace[k].op = "generate_token" })
      [] answer \in {"error", "exception"} -> NoToken
      [] answer = "malformed" -> TokenRaised

InitCommute ==
    /\ token = InitialToken
    /\ job_id = 0
    /\ job_status = ""
    /\ job_pc = "submit"
    /\ job_result = "none"
    /\ trace = <<>>
    /\ MatchIdle
    /\ GeocodeIdle
    /\ OthersIdle

\* lines 381-384 and 391: the job is submitted and a jobId comes back
SubmitJob ==
    /\ job_pc = "submit"
    /\ trace' = Append(trace, Call("submit", token, "jobId", 0))
    /\ job_id' = 1
    /\ job_status' = "esriJobSubmitted"
    /\ job_pc' = "poll"
    /\ UNCHANGED <<token, job_result, mvars, gvars, xvars>>

\* lines 385-389: no jobId in the response; or the request raised (lines 420-423)
SubmitFails ==
    /\ job_pc = "submit"
    /\ \E r \in {"no_jobId", "exception"} :
          trace' = Append(trace, Call("submit", token, r, 0))
    /\ job_pc' = "returned"
    /\ job_result' = "None"
    /\ UNCHANGED <<token, job_id, job_status, mvars, gvars, xvars>>

\* lines 396-397 and 409-410: a jobStatus that is neither Succeeded nor Failed
PollInProgress ==
    /\ CanPoll
    /\ \E st \in InProgressStatuses :
          /\ job_status' = st
          /\ trace' = trace \o << Call("poll", token, st, 0),
                                  Call("sleep", 0, "", PollInterval) >>
    /\ UNCHANGED <<token, job_id, job_pc, job_result, mvars, gvars, xvars>>

\* lines 398-399: Succeeded, the routes url is read from the status
PollSucceeded ==
    /\ CanPoll
    /\ job_status' = "esriJobSucceeded"
    /\ trace' = Append(trace, Call("poll", token, "esriJobSucceeded", 0))
    /\ job_pc' = "fetch"
    /\ UNCHANGED <<token, job_id, job_result, mvars, gvars, xvars>>

\* line 399 raises KeyError (Succeeded without results.routesLayer.paramUrl):
\* the except of lines 420-423 returns None and no result request is made
PollSucceededNoResults ==
    /\ CanPoll
    /\ job_status' = "esriJobSucceeded"
    /\ trace' = Append(trace, Call("poll", token, "esriJobSucceededNoResults", 0))
    /\ job_pc' = "returned"
    /\ job_result' = "None"
    /\ UNCHANGED <<token, job_id, mvars, gvars, xvars>>

\* lines 400-403: the result request returns the route features
FetchRoutes ==
    /\ job_pc = "fetch"
    /\ trace' = Append(trace, Call("fetch", token, "featureSet", 0))
    /\ job_pc' = "returned"
    /\ job_result' = "features"
    /\ UNCHANGED <<token, job_id, job_status, mvars, gvars, xvars>>

\* lines 400-403 raise (the request fails or the JSON has no value/featureSet):
\* the except of lines 420-423 returns None
FetchRaises ==
    /\ job_pc = "fetch"
    /\ trace' = Append(trace, Call("fetch", token, "exception", 0))
    /\ job_pc' = "returned"
    /\ job_result' = "None"
    /\ UNCHANGED <<token, job_id, job_status, mvars, gvars, xvars>>

\* lines 404-408 with the return of line 408 replaced by the sleep of line 410
PollFailedKeepsPolling ==
    /\ CanPoll
    /\ trace' = trace \o << Call("poll", token, "esriJobFailed", 0),
                            Call("sleep", 0, "", PollInterval) >>
    /\ UNCHANGED <<token, job_id, job_status, job_pc, job_result, mvars, gvars, xvars>>

\* lines 404-408: Failed
PollFailed ==
    /\ CanPoll
    /\ job_status' = "esriJobFailed"
    /\ trace' = Append(trace, Call("poll", token, "esriJobFailed", 0))
    /\ job_pc' = "returned"
    /\ job_result' = "None"
    /\ UNCHANGED <<token, job_id, mvars, gvars, xvars>>

\* lines 411-414: an error with code 498, the token is generated again
PollTokenExpired ==
    /\ CanPoll
    /\ \E answer \in TokenAnswers :
          /\ GenerateToken(answer) # TokenRaised
          /\ token' = GenerateToken(answer)
          /\ trace' = trace \o << Call("poll", token, "error498", 0),
                                  Call("generate_token", GenerateToken(answer),
                                       "username, password", 0),
                                  Call("sleep", 0, "", PollInterval) >>
    /\ UNCHANGED <<job_id, job_status, job_pc, job_result, mvars, gvars, xvars>>

\* lines 411-413 where generate_token raises KeyError: token is not rebound,
\* line 414 is not reached and the except of lines 420-423 returns None
PollTokenExpiredRaises ==
    /\ CanPoll
    /\ \E answer \in TokenAnswers :
          /\ GenerateToken(answer) = TokenRaised
          /\ trace' = trace \o << Call("poll", token, "error498", 0),
                                  Call("generate_token", TokenRaised,
                                       "username, password", 0) >>
    /\ job_pc' = "returned"
    /\ job_result' = "None"
    /\ UNCHANGED <<token, job_id, job_status, mvars, gvars, xvars>>

\* lines 411-419 with the test of line 412 left out: every error is handled as
\* an expired token (generate_token, sleep, poll again)
PollOtherErrorRetries ==
    /\ CanPoll
    /\ \E code \in ErrorCodes \ {TokenExpiredCode}, answer \in {"token", "error"} :
          /\ token' = GenerateToken(answer)
          /\ trace' = trace \o << Call("poll", token,
                                       IF code = 0 THEN "errorNoCode" ELSE "error500", 0),
                                  Call("generate_token", GenerateToken(answer), "username, password", 0),
                                  Call("sleep", 0, "", PollInterval) >>
    /\ UNCHANGED <<job_id, job_status, job_pc, job_result, mvars, gvars, xvars>>

\* lines 415-419: any other error
PollOtherError ==
    /\ CanPoll
    /\ \E code \in ErrorCodes \ {TokenExpiredCode} :
          trace' = Append(trace, Call("poll", token,
                                      IF code = 0 THEN "errorNoCode" ELSE "error500", 0))
    /\ job_pc' = "returned"
    /\ job_result' = "None"
    /\ UNCHANGED <<token, job_id, job_status, mvars, gvars, xvars>>

\* neither "jobStatus" nor "error" in the response: back to line 392 at once
PollNoStatus ==
    /\ CanPoll
    /\ trace' = Append(trace, Call("poll", token, "neither", 0))
    /\ UNCHANGED <<token, job_id, job_status, job_pc, job_result, mvars, gvars, xvars>>

\* the status request raises: the except of lines 420-423 returns None
PollRaises ==
    /\ CanPoll
    /\ trace' = Append(trace, Call("poll", token, "exception", 0))
    /\ job_pc' = "returned"
    /\ job_result' = "None"
    /\ UNCHANGED <<token, job_id, job_status, mvars, gvars, xvars>>

\* line 392 is false (a status such as esriJobWaiting was stored): the function
\* runs off its end and returns None
LoopExit ==
    /\ job_pc = "poll"
    /\ job_status \notin {"esriJobSubmitted", "esriJobExecuting"}
    /\ job_pc' = "returned"
    /\ job_result' = "None"
    /\ UNCHANGED <<token, job_id, job_status, trace, mvars, gvars, xvars>>

NextCommute ==
    \/ SubmitJob
    \/ SubmitFails
    \/ PollInProgress
    \/ PollSucceeded
    \/ PollSucceededNoResults
    \/ FetchRoutes
    \/ FetchRaises
    \/ PollFailed
    \/ PollTokenExpired
    \/ PollTokenExpiredRaises
    \/ PollOtherError
    \/ PollNoStatus
    \/ PollRaises
    \/ LoopExit

SpecCommute == InitCommute /\ [][NextCommute]_vars

\* calculate_commute runs in the only thread of the program and every call it
\* makes is blocking (requests.get, requests.post, time.sleep, generate_token):
\* as long as a statement is left to execute, the next one is executed.
SpecCommuteFair == SpecCommute /\ WF_vars(NextCommute)

----------------------------------------------------------------------------
\* write_output, lines 431-477

\* most route features, and most flagged employees, given to write_output
MaxFeatures == 2
MaxFlagged == 2

\* lines 15-24
HEADER == <<"Employee_Number", "Commute_Miles", "Commute_Minutes", "Work_Latitude",
            "Work_Longitude", "Home_Latitude", "Home_Longitude", "Flagged">>

\* the two ends of a route, as [lat, lon]
Points == {[lat |-> 11, lon |-> 21], [lat |-> 12, lon |-> 22]}

Miles == {3}
Minutes == {7}

\* the keys of the attributes of a route feature ("attributes" is the key of
\* the feature itself)
FeatureKeys ==
    {"attributes", "RouteName", "Total_Miles", "Total_Minutes",
     "From_Employee_Address_Type", "To_Employee_Address_Type",
     "From_Lat", "From_Lon", "To_Lat", "To_Lon"}

\* A route feature is a Python dict; keys is the set of keys present.
Feature(keys, name, miles, minutes, from_type, to_type, from, to) ==
    [keys |-> keys, RouteName |-> name, Total_Miles |-> miles,
     Total_Minutes |-> minutes, From_Type |-> from_type, To_Type |-> to_type,
     From_Lat |-> from.lat, From_Lon |-> from.lon,
     To_Lat |-> to.lat, To_Lon |-> to.lon]

\* the From and To ends of a route are different points
Ends == { e \in Points \X Points : e[1] # e[2] }

WellFormedFeatures ==
    { Feature(FeatureKeys, n, mi, mn, ft, tt, e[1], e[2]) :
        n \in EmployeeIds, mi \in Miles, mn \in Minutes,
        ft \in AddressTypes, tt \in AddressTypes, e \in Ends }

\* features with a key missing
MalformedFeatures ==
    { Feature(FeatureKeys \ k, 1, 3, 7, HOME_ADDRESS_TYPE, WORK_ADDRESS_TYPE,
              [lat |-> 11, lon |-> 21], [lat |-> 12, lon |-> 22]) :
        k \in { FeatureKeys, {"From_Employee_Address_Type"}, {"To_Lat"},
                {"To_Employee_Address_Type"} } }

Features == WellFormedFeatures \cup MalformedFeatures

\* lines 438-452 read these keys; a missing one raises KeyError
ReadableFeature(f) ==
    {"attributes", "RouteName", "Total_Miles", "Total_Minutes",
     "From_Employee_Address_Type", "From_Lat", "From_Lon", "To_Lat", "To_Lon"}
        \subseteq f.keys

\* lines 443-465 with the test of line 443 left out: From is taken as work
FeatureRowFromIsWork(f) ==
    <<f.RouteName, f.Total_Miles, f.Total_Minutes,
      f.From_Lat, f.From_Lon, f.To_Lat, f.To_Lon, FALSE>>

\* lines 438-465: the row of one route feature
FeatureRow(f) ==
    IF f.From_Type = WORK_ADDRESS_TYPE
    THEN <<f.RouteName, f.Total_Miles, f.Total_Minutes,
           f.From_Lat, f.From_Lon, f.To_Lat, f.To_Lon, FALSE>>
    ELSE <<f.RouteName, f.Total_Miles, f.Total_Minutes,
           f.To_Lat, f.To_Lon, f.From_Lat, f.From_Lon, FALSE>>

\* line 468
FlaggedRow(emp) == <<emp, 0, 0, 0, 0, 0, 0, TRUE>>

\* lines 471-474 ran to the end: the header and every row are in the file
WholeFile(rs) ==
    [written |-> TRUE, complete |-> TRUE, header |-> HEADER, rows |-> rs]

\* lines 472-474 or the close of the with block raised after line 471 opened
\* the file: the first n lines (the header is the first) reached it whole
CutFiles(rs) ==
    { [written |-> TRUE, complete |-> FALSE,
       header |-> IF n = 0 THEN <<>> ELSE HEADER,
       rows |-> SubSeq(rs, 1, n - 1)] : n \in 0..Len(rs) }

InitWrite ==
    /\ \E n \in 0..MaxFeatures : features \in [1..n -> Features]
    /\ \E n \in 0..MaxFlagged : flagged_employees \in [1..n -> EmployeeIds]
    /\ rows = <<>>
    /\ output_file = NoFile
    /\ write_pc = "features"
    /\ locations = <<>>
    /\ idx = 1
    /\ pc = "idle"
    /\ found_employees = <<>>
    /\ origins = <<>>
    /\ destinations = <<>>
    /\ matching_location = 0
    /\ GeocodeIdle
    /\ CommuteIdle
    /\ ReadIdle
    /\ MainIdle

\* lines 437-465: one pass of the first loop
AppendFeatureRow ==
    /\ write_pc = "features"
    /\ Len(rows) < Len(features)
    /\ ReadableFeature(features[Len(rows) + 1])
    /\ rows' = Append(rows, FeatureRow(features[Len(rows) + 1]))
    /\ UNCHANGED <<features, output_file, write_pc, mvars, gvars, jvars, rvars, pvars>>

\* lines 438-452 raise KeyError: the loop is outside the try of line 470
FeatureRaises ==
    /\ write_pc = "features"
    /\ Len(rows) < Len(features)
    /\ ~ReadableFeature(features[Len(rows) + 1])
    /\ write_pc' = "raised"
    /\ UNCHANGED <<features, rows, output_file, mvars, gvars, jvars, rvars, pvars>>

\* line 467 with the flagged row put in front of the rows built so far
AppendFlaggedRowFirst ==
    /\ write_pc = "features"
    /\ Len(rows) >= Len(features)
    /\ Len(rows) < Len(features) + Len(flagged_employees)
    /\ rows' = <<FlaggedRow(flagged_employees[Len(rows) - Len(features) + 1])>> \o rows
    /\ UNCHANGED <<features, output_file, write_pc, mvars, gvars, jvars, rvars, pvars>>

\* lines 467-468: one pass of the second loop
AppendFlaggedRow ==
    /\ write_pc = "features"
    /\ Len(rows) >= Len(features)
    /\ Len(rows) < Len(features) + Len(flagged_employees)
    /\ rows' = Append(rows, FlaggedRow(flagged_employees[Len(rows) - Len(features) + 1]))
    /\ UNCHANGED <<features, output_file, write_pc, mvars, gvars, jvars, rvars, pvars>>

\* lines 470-474: the header and the rows are written
WriteFile ==
    /\ write_pc = "features"
    /\ Len(rows) = Len(features) + Len(flagged_employees)
    /\ output_file' = WholeFile(rows)
    /\ write_pc' = "returned"
    /\ UNCHANGED <<features, rows, mvars, gvars, jvars, rvars, pvars>>

\* lines 470-477: something in the try raises and the error is logged.  Either
\* the file cannot be opened and is left as it was, or it was opened and a
\* write or the close fails (disk full), leaving the lines written so far
WriteFileFails ==
    /\ write_pc = "features"
    /\ Len(rows) = Len(features) + Len(flagged_employees)
    /\ output_file' \in {output_file} \cup CutFiles(rows)
    /\ write_pc' = "returned"
    /\ UNCHANGED <<features, rows, mvars, gvars, jvars, rvars, pvars>>

NextWrite ==
    \/ AppendFeatureRow
    \/ FeatureRaises
    \/ AppendFlaggedRow
    \/ WriteFile
    \/ WriteFileFails

SpecWrite == InitWrite /\ [][NextWrite]_vars

\* the rows write_output builds when no feature raises, lines 436-468
BuildRows(fs, flagged) ==
    [k \in 1..(Len(fs) + Len(flagged)) |->
        IF k <= Len(fs) THEN FeatureRow(fs[k]) ELSE FlaggedRow(flagged[k - Len(fs)])]

----------------------------------------------------------------------------
\* read_worker_info, lines 253-317

\* most rows in the CSV
MaxRoster == 3

\* employee numbers in the CSV
EmployeeNumbers == {0, 1, 2}

\* the columns of the CSV that lines 274-282 read
AllFields ==
    {"employee_number", "work_address", "work_city", "work_state", "work_zip",
     "home_address", "home_city", "home_state", "home_zip"}

\* One row of the CSV.  fields is the set of columns present; numeric is
\* false when the employee number is text, for which `employee + 1` raises
\* TypeError.  City, state and zip are copied like the address and left out.
Worker(fields, employee, numeric, work_address, home_address) ==
    [fields |-> fields, employee |-> employee, numeric |-> numeric,
     work_address |-> work_address, home_address |-> home_address]

Workers ==
    { Worker(AllFields, e, TRUE, "a1", h) : e \in EmployeeNumbers, h \in Addresses }
    \cup { Worker(AllFields \ {"employee_number"}, 1, TRUE, "a1", "a2"),
           Worker(AllFields, 1, FALSE, "a1", "a2") }
    \cup { Worker(AllFields \ {"home_zip"}, e, TRUE, "a1", "a2") : e \in {0, 1} }

\* lines 274-305 run without an exception
ReadableWorker(worker) == worker.fields = AllFields /\ worker.numeric

\* lines 284-305: the two records of one employee
WorkerRecords(worker) ==
    << [OBJECTID |-> worker.employee, Address |-> worker.work_address],
       [OBJECTID |-> worker.employee + 1, Address |-> worker.home_address] >>

InitRead ==
    /\ \E n \in 0..MaxRoster : worker_info \in [1..n -> Workers]
    /\ row = 1
    /\ records_list = <<>>
    /\ read_pc = "read_csv"
    /\ MatchIdle
    /\ GeocodeIdle
    /\ CommuteIdle
    /\ WriteIdle
    /\ MainIdle

\* line 268: the CSV is read
ReadCsv ==
    /\ read_pc = "read_csv"
    /\ read_pc' = "loop"
    /\ UNCHANGED <<worker_info, row, records_list, mvars, gvars, jvars, wvars, pvars>>

\* line 268 raises (no such file): it is outside the try of line 273
ReadCsvRaises ==
    /\ read_pc = "read_csv"
    /\ read_pc' = "raised"
    /\ UNCHANGED <<worker_info, row, records_list, mvars, gvars, jvars, wvars, pvars>>

\* lines 271-306: the two records of the row are appended
ReadWorker ==
    /\ read_pc = "loop"
    /\ row <= Len(worker_info)
    /\ ReadableWorker(worker_info[row])
    /\ records_list' = Append(records_list, WorkerRecords(worker_info[row]))
    /\ row' = row + 1
    /\ UNCHANGED <<worker_info, read_pc, mvars, gvars, jvars, wvars, pvars>>

\* lines 274-298 raise: the handler of lines 307-315 logs, nothing is appended
ReadWorkerRaises ==
    /\ read_pc = "loop"
    /\ row <= Len(worker_info)
    /\ ~ReadableWorker(worker_info[row])
    /\ row' = row + 1
    /\ UNCHANGED <<worker_info, records_list, read_pc, mvars, gvars, jvars, wvars, pvars>>

\* line 317
ReadReturn ==
    /\ read_pc = "loop"
    /\ row > Len(worker_info)
    /\ read_pc' = "returned"
    /\ UNCHANGED <<worker_info, row, records_list, mvars, gvars, jvars, wvars, pvars>>

NextRead ==
    \/ ReadCsv
    \/ ReadCsvRaises
    \/ ReadWorker
    \/ ReadWorkerRaises
    \/ ReadReturn

SpecRead == InitRead /\ [][NextRead]_vars

\* read_worker_info as a function of the rows, from row i on: lines 270-317
RECURSIVE ReadFrom(_, _)
ReadFrom(workers, i) ==
    IF i > Len(workers) THEN <<>>
    ELSE IF ReadableWorker(workers[i])
         THEN <<WorkerRecords(workers[i])>> \o ReadFrom(workers, i + 1)
    ELSE ReadFrom(workers, i + 1)

read_worker_info(workers) == ReadFrom(workers, 1)

----------------------------------------------------------------------------
\* get_travel_mode, lines 320-358

\* The response of the request of lines 326-328:
\*   "exception"                the request or .json() raised
\*   "no_results"               a JSON object without "results" (an error answer)
\*   "no_paramName"             a result without "paramName"
\*   "no_supportedTravelModes"  no result is named supportedTravelModes
\*   "no_features"              supportedTravelModes without value.features
\*   "no_Name"                  a travel mode without attributes.Name
\*   "no_TravelMode"            the travel mode asked for without attributes.TravelMode
\*   "no_such_mode"             no travel mode has the name asked for
\*   "mode"                     the travel mode asked for is there
TravelModeResponses ==
    {"exception", "no_results", "no_paramName", "no_supportedTravelModes",
     "no_features", "no_Name", "no_TravelMode", "no_such_mode", "mode"}

\* what get_travel_mode returns: "None", "mode", or "raised" when a KeyError
\* leaves it (lines 337-358 are outside the try of line 325)
get_travel_mode(res) ==
    IF res = "exception" THEN "None"
    ELSE IF res \in {"no_results", "no_paramName"} THEN "raised"
    ELSE IF res = "no_supportedTravelModes" THEN "None"
    ELSE IF res \in {"no_features", "no_Name", "no_TravelMode"} THEN "raised"
    ELSE IF res = "no_such_mode" THEN "None"
    ELSE "mode"

----------------------------------------------------------------------------
\* main, lines 502-578

\* most rows of the CSV, and most candidates in one geocoder response, in a run
MaxMainRoster == 2
MaxMainCandidates == 2

\* the rows of the CSV in a run of main
MainWorkers == { w \in Workers : w.employee \in EmployeeIds /\ w.home_address = "a2" }

\* what the geocoder answers to the request for `records`: the candidates echo
\* the OBJECTID of one of the two records
MainCandidates(records) ==
    { Loc(RawKeys, r, "", a, s) :
        r \in {records[1].OBJECTID, records[2].OBJECTID},
        a \in Addresses, s \in Scores }
    \cup {Loc({"address", "score", "location"}, 0, "", "a1", 100)}
    \cup {Loc(RawKeys \ {"location"}, records[1].OBJECTID, "", "a1", 100)}

MainResponses(records) ==
    {[kind |-> "exception", locations |-> <<>>],
     [kind |-> "no_locations", locations |-> <<>>]}
    \cup { [kind |-> "locations", locations |-> c] :
             c \in UNION { [1..n -> MainCandidates(records)] :
                             n \in 0..MaxMainCandidates } }

\* locations_to_feature_collection, lines 150-187: reads location, ResultID and
\* the address type of every element; origins and destinations hold only
\* results whose attributes were read by match_work_and_home
FeatureCollectionRaises(list) ==
    \E k \in 1..Len(list) : "location" \notin list[k].keys

\* the route features of a job that succeeds with one route per pair, in order
RouteFeatures(orig, dest) ==
    [k \in 1..Len(orig) |->
        Feature(FeatureKeys, orig[k].rid, 3, 7, orig[k].tag, dest[k].tag,
                [lat |-> 11, lon |-> 21], [lat |-> 12, lon |-> 22])]

\* the same with a first feature that has no attributes
MalformedRouteFeatures(orig, dest) ==
    [RouteFeatures(orig, dest) EXCEPT ![1].keys = {}]

\* the variables main never touches
mainfixed ==
    <<idx, pc, found_employees, matching_location, geo_pc, geo_result,
      job_id, job_status, job_pc, trace, worker_info, row, read_pc, write_pc>>

InitMain ==
    /\ main_pc = "read_config"
    /\ request = 1
    /\ MatchIdle
    /\ GeocodeIdle
    /\ CommuteIdle
    /\ ReadIdle
    /\ WriteIdle

\* lines 507-509 and 526-528: read_config returns None or an empty value, or
\* a key is missing from the config (KeyError, caught at line 526)
MainConfigFails ==
    /\ main_pc = "read_config"
    /\ main_pc' = "return_config"
    /\ UNCHANGED <<mainfixed, records_list, token, res_json, locations, origins,
                   destinations, flagged_employees, job_result, features, rows,
                   output_file, request>>

\* lines 511-526: the try raises something other than KeyError, which line 526
\* does not catch: logger.setLevel calls level.upper() on a "log_level" that is
\* not a string (AttributeError), or the config is a non-empty list, a string
\* or a number and cannot be subscripted with a key (TypeError)
MainConfigRaises ==
    /\ main_pc = "read_config"
    /\ main_pc' = "raised"
    /\ UNCHANGED <<mainfixed, records_list, token, res_json, locations, origins,
                   destinations, flagged_employees, job_result, features, rows,
                   output_file, request>>

\* lines 507-525: the config is a dict with every key and a string log level
MainReadConfig ==
    /\ main_pc = "read_config"
    /\ main_pc' = "read_worker_info"
    /\ UNCHANGED <<mainfixed, records_list, token, res_json, locations, origins,
                   destinations, flagged_employees, job_result, features, rows,
                   output_file, request>>

\* lines 530-544
MainReadWorkerInfo ==
    /\ main_pc = "read_worker_info"
    /\ \E n \in 0..MaxMainRoster : \E w \in [1..n -> MainWorkers] :
          records_list' = read_worker_info(w)
    /\ main_pc' = IF records_list' = <<>> THEN "return_records" ELSE "generate_token"
    /\ UNCHANGED <<mainfixed, token, res_json, locations, origins,
                   destinations, flagged_employees, job_result, features, rows,
                   output_file, request>>

\* line 530: read_worker_info raises (line 268), main has no handler
MainReadWorkerInfoRaises ==
    /\ main_pc = "read_worker_info"
    /\ main_pc' = "raised"
    /\ UNCHANGED <<mainfixed, records_list, token, res_json, locations, origins,
                   destinations, flagged_employees, job_result, features, rows,
                   output_file, request>>

\* lines 546-548: the token, or None; main goes on either way
MainGenerateToken ==
    /\ main_pc = "generate_token"
    /\ \E answer \in TokenAnswers :
          /\ GenerateToken(answer) # TokenRaised
          /\ token' = IF answer = "token" THEN InitialToken ELSE NoToken
    /\ main_pc' = "geocode"
    /\ UNCHANGED <<mainfixed, records_list, res_json, locations, origins,
                   destinations, flagged_employees, job_result, features, rows,
                   output_file, request>>

\* line 546: keyring.get_password raises (no keyring backend, locked
\* keyring); the call is outside every try
MainGetPasswordRaises ==
    /\ main_pc = "generate_token"
    /\ main_pc' = "raised"
    /\ UNCHANGED <<mainfixed, records_list, token, res_json, locations, origins,
                   destinations, flagged_employees, job_result, features, rows,
                   output_file, request>>

\* line 548: generate_token raises KeyError (lines 60-69), main has no handler
MainGenerateTokenRaises ==
    /\ main_pc = "generate_token"
    /\ \E answer \in TokenAnswers : GenerateToken(answer) = TokenRaised
    /\ main_pc' = "raised"
    /\ UNCHANGED <<mainfixed, records_list, token, res_json, locations, origins,
                   destinations, flagged_employees, job_result, features, rows,
                   output_file, request>>

AtRequest == main_pc = "geocode" /\ request <= Len(records_list)

\* lines 551-552: the list returned is appended to locations
MainGeocodeExtends ==
    /\ AtRequest
    /\ \E res \in MainResponses(records_list[request]) :
          /\ geocode_addresses(res).kind = "list"
          /\ res_json' = res
          /\ locations' = locations \o geocode_addresses(res).locations
    /\ request' = request + 1
    /\ UNCHANGED <<mainfixed, records_list, token, origins, destinations,
                   flagged_employees, job_result, features, rows, output_file,
                   main_pc>>

\* line 552: geocode_addresses returned None and locations.extend(None) raises
\* TypeError; main has no handler
MainGeocodeNone ==
    /\ AtRequest
    /\ \E res \in MainResponses(records_list[request]) :
          /\ geocode_addresses(res).kind = "None"
          /\ res_json' = res
    /\ main_pc' = "raised"
    /\ UNCHANGED <<mainfixed, records_list, token, locations, origins,
                   destinations, flagged_employees, job_result, features, rows,
                   output_file, request>>

\* line 552: geocode_addresses raises KeyError (lines 107-110)
MainGeocodeRaises ==
    /\ AtRequest
    /\ \E res \in MainResponses(records_list[request]) :
          /\ geocode_addresses(res).kind = "raised"
          /\ res_json' = res
    /\ main_pc' = "raised"
    /\ UNCHANGED <<mainfixed, records_list, token, locations, origins,
                   destinations, flagged_employees, job_result, features, rows,
                   output_file, request>>

\* lines 554-557.  The test of line 554 is never true here: records_list is
\* not empty (line 543) and every list geocode_addresses returns has at least
\* one element (line 100).
MainMatch ==
    /\ main_pc = "geocode"
    /\ request > Len(records_list)
    /\ locations # <<>>
    /\ origins' = match_work_and_home(locations).origins
    /\ destinations' = match_work_and_home(locations).destinations
    /\ flagged_employees' = match_work_and_home(locations).flagged
    /\ main_pc' = "feature_collections"
    /\ UNCHANGED <<mainfixed, records_list, token, res_json, locations,
                   job_result, features, rows, output_file, request>>

\* lines 559-560
MainFeatureCollections ==
    /\ main_pc = "feature_collections"
    /\ ~FeatureCollectionRaises(origins \o destinations)
    /\ main_pc' = "analysis_url"
    /\ UNCHANGED <<mainfixed, records_list, token, res_json, locations, origins,
                   destinations, flagged_employees, job_result, features, rows,
                   output_file, request>>

\* lines 559-560: KeyError at line 171, main has no handler
MainFeatureCollectionRaises ==
    /\ main_pc = "feature_collections"
    /\ FeatureCollectionRaises(origins \o destinations)
    /\ main_pc' = "raised"
    /\ UNCHANGED <<mainfixed, records_list, token, res_json, locations, origins,
                   destinations, flagged_employees, job_result, features, rows,
                   output_file, request>>

\* lines 562-564: get_analysis_url returns the url or None
MainAnalysisUrl ==
    /\ main_pc = "analysis_url"
    /\ \E ok \in BOOLEAN : main_pc' = IF ok THEN "travel_mode" ELSE "return_url"
    /\ UNCHANGED <<mainfixed, records_list, token, res_json, locations, origins,
                   destinations, flagged_employees, job_result, features, rows,
                   output_file, request>>

\* lines 566-568: get_travel_mode returns the travel mode or None
MainTravelMode ==
    /\ main_pc = "travel_mode"
    /\ \E res \in TravelModeResponses :
          /\ get_travel_mode(res) # "raised"
          /\ main_pc' = IF get_travel_mode(res) = "mode" THEN "commute"
                        ELSE "return_mode"
    /\ UNCHANGED <<mainfixed, records_list, token, res_json, locations, origins,
                   destinations, flagged_employees, job_result, features, rows,
                   output_file, request>>

\* line 566: get_travel_mode raises KeyError, main has no handler
MainTravelModeRaises ==
    /\ main_pc = "travel_mode"
    /\ \E res \in TravelModeResponses : get_travel_mode(res) = "raised"
    /\ main_pc' = "raised"
    /\ UNCHANGED <<mainfixed, records_list, token, res_json, locations, origins,
                   destinations, flagged_employees, job_result, features, rows,
                   output_file, request>>

\* lines 570-574: calculate_commute returns the route features of the job; an
\* empty list is false at line 573
MainCommute ==
    /\ main_pc = "commute"
    /\ features' \in {RouteFeatures(origins, destinations)}
                       \cup (IF origins = <<>> THEN {}
                             ELSE {MalformedRouteFeatures(origins, destinations)})
    /\ job_result' = "features"
    /\ main_pc' = IF features' = <<>> THEN "return_features" ELSE "write_output"
    /\ UNCHANGED <<mainfixed, records_list, token, res_json, locations, origins,
                   destinations, flagged_employees, rows, output_file, request>>

\* lines 570-574: calculate_commute returns None
MainCommuteNone ==
    /\ main_pc = "commute"
    /\ job_result' = "None"
    /\ main_pc' = "return_features"
    /\ UNCHANGED <<mainfixed, records_list, token, res_json, locations, origins,
                   destinations, flagged_employees, features, rows, output_file,
                   request>>

\* lines 576-578: the rows are built and written
MainWriteOutput ==
    /\ main_pc = "write_output"
    /\ \A k \in 1..Len(features) : ReadableFeature(features[k])
    /\ rows' = BuildRows(features, flagged_employees)
    /\ output_file' \in {WholeFile(rows'), NoFile} \cup CutFiles(rows')
    /\ main_pc' = "finished"
    /\ UNCHANGED <<mainfixed, records_list, token, res_json, locations, origins,
                   destinations, flagged_employees, job_result, features, request>>

\* line 576: write_output raises KeyError (lines 438-452), main has no handler
MainWriteOutputRaises ==
    /\ main_pc = "write_output"
    /\ \E k \in 1..Len(features) : ~ReadableFeature(features[k])
    /\ main_pc' = "raised"
    /\ UNCHANGED <<mainfixed, records_list, token, res_json, locations, origins,
                   destinations, flagged_employees, job_result, features, rows,
                   output_file, request>>

NextMain ==
    \/ MainConfigFails
    \/ MainConfigRaises
    \/ MainReadConfig
    \/ MainReadWorkerInfo
    \/ MainReadWorkerInfoRaises
    \/ MainGetPasswordRaises
    \/ MainGenerateToken
    \/ MainGenerateTokenRaises
    \/ MainGeocodeExtends
    \/ MainGeocodeNone
    \/ MainGeocodeRaises
    \/ MainMatch
    \/ MainFeatureCollections
    \/ MainFeatureCollectionRaises
    \/ MainAnalysisUrl
    \/ MainTravelMode
    \/ MainTravelModeRaises
    \/ MainCommute
    \/ MainCommuteNone
    \/ MainWriteOutput
    \/ MainWriteOutputRaises

SpecMain == InitMain /\ [][NextMain]_vars

----------------------------------------------------------------------------
\* Properties of match_work_and_home

AtLoopBoundary == pc \in {"loop", "done"}

\* the indices of the results that carry employee e as ResultID
RecordsOf(pool, e) == { i \in 1..Len(pool) : HasResultID(pool[i]) /\ pool[i].rid = e }

IsWellFormed(l) == l.keys = AllKeys

NothingAddedFor(e) ==
    /\ \A k \in 1..Len(origins) : origins[k].rid # e
    /\ \A k \in 1..Len(destinations) : destinations[k].rid # e

\* The state machine returns what the function computes
ReturnAgrees ==
    pc = "done" =>
        match_work_and_home(locations) =
            MatchState(found_employees, origins, destinations, flagged_employees)

\* C1: after every pass of the loop and at the return, origins and destinations
\* have the same length and origins[i], destinations[i] carry the same ResultID.
C1_OriginsDestinationsPaired ==
    AtLoopBoundary =>
        /\ Len(origins) = Len(destinations)
        /\ \A i \in 1..Len(origins) : origins[i].rid = destinations[i].rid

\* a pair was matched in a pool that also holds a result of another employee
C1_Witness ==
    /\ pc = "done"
    /\ Len(origins) = 1
    /\ \E i \in 1..Len(locations) :
          HasResultID(locations[i]) /\ locations[i].rid # origins[1].rid

\* C2: no employee identifier is both in found_employees and in flagged_employees.
C2_FoundFlaggedDisjoint ==
    \A e \in EmployeeIds :
        ~(InList(e, found_employees) /\ InList(e, flagged_employees))

\* C3 as claimed: every matched pair has the WORK-tagged member in origins and
\* the HOME-tagged member in destinations.
C3_OriginIsWork ==
    AtLoopBoundary =>
        \A i \in 1..Len(origins) :
            /\ origins[i].tag = WORK_ADDRESS_TYPE
            /\ destinations[i].tag = HOME_ADDRESS_TYPE

\* C3 as amended: the record appended to origins is the record the loop is
\* processing, whatever its tag, and the record appended to destinations is a
\* result of the pool that carries the other tag.
C3_OriginIsProcessedRecord ==
    [][ /\ (origins' # origins => origins' = Append(origins, locations[idx]))
        /\ (destinations' # destinations =>
              \E m \in 1..Len(locations) :
                  /\ destinations' = Append(destinations, locations[m])
                  /\ origins[Len(origins)] = locations[idx]
                  /\ {locations[idx].tag, locations[m].tag}
                         = {WORK_ADDRESS_TYPE, HOME_ADDRESS_TYPE}) ]_vars

\* the pool is what geocode_addresses returns when the first candidate has the
\* larger ResultID: the HOME-tagged result comes first and becomes the origin
C3_Witness ==
    /\ pc = "done"
    /\ \E c \in [1..2 -> Candidates] :
          /\ HasResultID(c[1]) /\ HasResultID(c[2])
          /\ c[1].rid > c[2].rid
          /\ locations = AssignAddressTypes(c)
    /\ Len(origins) = 1
    /\ origins[1] = locations[1]
    /\ origins[1].tag = HOME_ADDRESS_TYPE
    /\ destinations[1] = locations[2]
    /\ destinations[1].tag = WORK_ADDRESS_TYPE

\* C4: when processing a record raises, the employee of that record is flagged
\* and the loop goes on with the next record.
C4_RaiseFlagsEmployee ==
    [][ RaiseBound =>
          /\ InList(locations[idx].rid, flagged_employees')
          /\ idx' = idx + 1
          /\ pc' = "loop" ]_vars

\* C5: an outcome is final.  A flagged identifier stays flagged and is never
\* added to found, origins or destinations; a found identifier is never
\* flagged; skipping a later duplicate changes none of the four lists.
C5_OutcomeIsFinal ==
    [][ /\ \A e \in EmployeeIds :
              /\ InList(e, flagged_employees) =>
                    /\ InList(e, flagged_employees')
                    /\ (InList(e, found_employees') => InList(e, found_employees))
                    /\ (origins' # origins => origins'[Len(origins')].rid # e)
                    /\ (destinations' # destinations =>
                            destinations'[Len(destinations')].rid # e)
              /\ InList(e, found_employees) =>
                    (InList(e, flagged_employees') => InList(e, flagged_employees))
        /\ SkipResolved =>
              UNCHANGED <<origins, destinations, found_employees, flagged_employees>>
      ]_vars

\* e has exactly two results, both with every field, with the same address string
OnlyTwoSameAddress(e) ==
    /\ Cardinality(RecordsOf(locations, e)) = 2
    /\ \A i, j \in RecordsOf(locations, e) :
          /\ IsWellFormed(locations[i])
          /\ locations[i].addr = locations[j].addr

\* C6: an employee whose only two results have the same address string is
\* flagged and has nothing in origins or destinations.
C6_SameAddressFlagged ==
    pc = "done" =>
        \A e \in EmployeeIds :
            OnlyTwoSameAddress(e) =>
                InList(e, flagged_employees) /\ NothingAddedFor(e)

\* e has exactly two results, both with every field, that are structural
\* counterparts (different address, opposite tag), and one of them has score 0
ZeroScorePair(e) ==
    /\ Cardinality(RecordsOf(locations, e)) = 2
    /\ \A i \in RecordsOf(locations, e) : IsWellFormed(locations[i])
    /\ \E i, j \in RecordsOf(locations, e) :
          /\ locations[i].addr # locations[j].addr
          /\ locations[i].tag # locations[j].tag
          /\ locations[i].score = 0

\* C7: when a structural counterpart exists and either member of the pair has
\* score 0, the employee is flagged and neither member is in origins or
\* destinations.
C7_ZeroScoreFlagged ==
    pc = "done" =>
        \A e \in EmployeeIds :
            ZeroScorePair(e) =>
                InList(e, flagged_employees) /\ NothingAddedFor(e)

NoMoreThanTwoRecords ==
    \A e \in EmployeeIds : Cardinality(RecordsOf(locations, e)) <= 2

\* C8: for a pool with at most two results per identifier, running the matcher
\* again on origins followed by destinations flags nobody and returns the same
\* origins and destinations.
C8_RerunIdempotent ==
    (pc = "done" /\ NoMoreThanTwoRecords) =>
        LET again == match_work_and_home(origins \o destinations) IN
            /\ again.flagged = <<>>
            /\ again.origins = origins
            /\ again.destinations = destinations

\* the first run matched a pair and flagged somebody else
C8_Witness ==
    /\ pc = "done"
    /\ NoMoreThanTwoRecords
    /\ Len(origins) = 1
    /\ Len(flagged_employees) = 1

----------------------------------------------------------------------------
\* Properties of geocode_addresses

Min(a, b) == IF a < b THEN a ELSE b

\* C9: of two candidates exactly one is tagged WORK and the other HOME, the
\* WORK one is the candidate whose original ResultID was the lower, and both
\* end with that lower ResultID.
C9_TwoCandidatesTagged ==
    (geo_pc = "returned" /\ Len(res_json.locations) = 2) =>
        LET lower == Min(res_json.locations[1].rid, res_json.locations[2].rid) IN
        /\ Len(geo_result) = 2
        /\ \E w, h \in 1..2 :
              /\ w # h
              /\ HasAddressType(geo_result[w]) /\ HasAddressType(geo_result[h])
              /\ geo_result[w].tag = WORK_ADDRESS_TYPE
              /\ geo_result[h].tag = HOME_ADDRESS_TYPE
              /\ res_json.locations[w].rid = lower
        /\ geo_result[1].rid = lower
        /\ geo_result[2].rid = lower

\* the first candidate returned had the larger ResultID
C9_Witness ==
    /\ geo_pc = "returned"
    /\ Len(res_json.locations) = 2
    /\ res_json.locations[1].rid > res_json.locations[2].rid
    /\ geo_result[1].tag = HOME_ADDRESS_TYPE

----------------------------------------------------------------------------
\* Properties of calculate_commute

IsPoll(c) == c.op = "poll"
IsGenerate(c) == c.op = "generate_token"

\* the responses of the status polls made so far, in order
PollResponses ==
    LET polls == SelectSeq(trace, IsPoll) IN
    [k \in 1..Len(polls) |-> polls[k].response]

\* the token in force when call k is made: what the last generate_token before
\* it returned, the token passed in when there was none
RECURSIVE TokenInForce(_)
TokenInForce(k) ==
    IF k <= 1 THEN InitialToken
    ELSE IF IsGenerate(trace[k - 1]) THEN trace[k - 1].token
    ELSE TokenInForce(k - 1)

\* the job status after the first k calls: the last jobStatus received
RECURSIVE StatusAfter(_)
StatusAfter(k) ==
    IF k = 0 THEN ""
    ELSE IF trace[k].op = "submit" /\ trace[k].response = "jobId" THEN "esriJobSubmitted"
    ELSE IF IsPoll(trace[k]) /\ trace[k].response \in InProgressStatuses
         THEN trace[k].response
    ELSE StatusAfter(k - 1)

\* C10: a 498 answer to a status poll makes exactly one generate_token call with
\* the original credentials; every later poll and the result request send the
\* token it returned; the job is not submitted again, job id and job status
\* stay as they were and no failure is returned; for the answers Executing,
\* Executing, 498, Succeeded there is one regeneration and, the result request
\* answering with a feature set, the features are returned.
C10_TokenExpiryRefreshesOnce ==
    /\ \A k \in 1..Len(trace) :
          /\ (IsPoll(trace[k]) /\ trace[k].response = "error498") =>
                /\ k + 2 <= Len(trace)
                /\ IsGenerate(trace[k + 1])
                /\ trace[k + 1].response = "username, password"
                /\ ~IsGenerate(trace[k + 2])
          /\ IsGenerate(trace[k]) =>
                k > 1 /\ IsPoll(trace[k - 1]) /\ trace[k - 1].response = "error498"
          /\ trace[k].op \in {"poll", "fetch"} => trace[k].token = TokenInForce(k)
          /\ trace[k].op = "submit" => k = 1
    /\ (Len(trace) > 0 /\ trace[Len(trace)].op = "sleep"
            /\ IsGenerate(trace[Len(trace) - 1])) =>
          /\ job_pc = "poll"
          /\ job_result = "none"
          /\ job_id = 1
          /\ job_status = StatusAfter(Len(trace))
          /\ token = trace[Len(trace) - 1].token
    /\ PollResponses = <<"esriJobExecuting", "esriJobExecuting", "error498",
                         "esriJobSucceeded">> =>
          /\ Cardinality({ k \in 1..Len(trace) : IsGenerate(trace[k]) }) = 1
          /\ job_pc = "returned" =>
                /\ trace[Len(trace)].op = "fetch"
                /\ trace[Len(trace)].token = TokenInForce(Len(trace))
                /\ trace[Len(trace)].response = "featureSet" => job_result = "features"

\* the answers to a status poll after which line 408 or 419 returns
FailureResponses == {"esriJobFailed", "error500", "errorNoCode"}

\* the answers to a status poll whose jobStatus is esriJobSucceeded, with and
\* without results.routesLayer.paramUrl
SucceededResponses == {"esriJobSucceeded", "esriJobSucceededNoResults"}

\* C11 as claimed: the first status poll that reports a terminal outcome ends
\* polling.  On esriJobSucceeded exactly one result request is made and the
\* fetched route features are returned; on esriJobFailed or an error other
\* than 498 None is returned at once; nothing is polled, regenerated or
\* submitted afterwards; and a submission without a jobId returns None with no
\* status poll.
C11_SucceededReturnsFeatures ==
    \A k \in 1..Len(trace) :
        /\ (IsPoll(trace[k]) /\ trace[k].response \in SucceededResponses) =>
              /\ job_pc \in {"fetch", "returned"}
              /\ Len(trace) <= k + 1
              /\ job_pc = "returned" =>
                    /\ Len(trace) = k + 1
                    /\ trace[k + 1].op = "fetch"
                    /\ job_result = "features"
        /\ (IsPoll(trace[k]) /\ trace[k].response \in FailureResponses) =>
              /\ Len(trace) = k
              /\ job_pc = "returned"
              /\ job_result = "None"
        /\ (trace[k].op = "submit" /\ trace[k].response # "jobId") =>
              /\ Len(trace) = 1
              /\ job_pc = "returned"
              /\ job_result = "None"

\* C11 amended: the first status poll that reports a terminal outcome ends
\* polling.  After esriJobSucceeded the only further call is one result
\* request: the features are returned when it answers with a feature set and
\* None when it does not; a Succeeded status without a result url makes no
\* result request and returns None.  After esriJobFailed or an error other
\* than 498 None is returned at once; nothing is polled, regenerated or
\* submitted afterwards; and a submission without a jobId returns None with no
\* status poll.
C11_TerminalEndsPolling ==
    \A k \in 1..Len(trace) :
        /\ (IsPoll(trace[k]) /\ trace[k].response = "esriJobSucceeded") =>
              /\ job_pc \in {"fetch", "returned"}
              /\ Len(trace) <= k + 1
              /\ job_pc = "returned" =>
                    /\ Len(trace) = k + 1
                    /\ trace[k + 1].op = "fetch"
                    /\ trace[k + 1].response = "featureSet" => job_result = "features"
                    /\ trace[k + 1].response # "featureSet" => job_result = "None"
        /\ (IsPoll(trace[k]) /\ trace[k].response \in FailureResponses) =>
              /\ Len(trace) = k
              /\ job_pc = "returned"
              /\ job_result = "None"
        /\ (IsPoll(trace[k]) /\ trace[k].response = "esriJobSucceededNoResults") =>
              /\ Len(trace) = k
              /\ job_pc = "returned"
              /\ job_result = "None"
        /\ (trace[k].op = "submit" /\ trace[k].response # "jobId") =>
              /\ Len(trace) = 1
              /\ job_pc = "returned"
              /\ job_result = "None"

\* Executing then Succeeded were answered, one result request was made and the
\* features were returned
C11_Witness ==
    /\ PollResponses = <<"esriJobExecuting", "esriJobSucceeded">>
    /\ job_pc = "returned"
    /\ job_result = "features"
    /\ Len(trace) = 5
    /\ trace[5].op = "fetch"

\* C18: every status response with a jobStatus other than esriJobSucceeded and
\* esriJobFailed keeps calculate_commute in the polling loop: after the sleep
\* that follows it the loop condition of line 392 holds and nothing is returned.
C18_InProgressKeepsPolling ==
    (/\ Len(trace) >= 2
     /\ trace[Len(trace)].op = "sleep"
     /\ IsPoll(trace[Len(trace) - 1])
     /\ trace[Len(trace) - 1].response \in InProgressStatuses) =>
        /\ job_status \in {"esriJobSubmitted", "esriJobExecuting"}
        /\ job_pc = "poll"

\* the positions in trace of the status polls
PollPositions == { k \in 1..Len(trace) : IsPoll(trace[k]) }

\* the calls made strictly between positions i and j that are sleeps
SleepsBetween(i, j) == { k \in (i + 1)..(j - 1) : trace[k].op = "sleep" }

\* C19: between any two consecutive status polls there is exactly one sleep,
\* of PollInterval time units, whatever the first of the two polls answered.
C19_OneSleepBetweenPolls ==
    \A i, j \in PollPositions :
        (i < j /\ \A k \in (i + 1)..(j - 1) : ~IsPoll(trace[k])) =>
            /\ Cardinality(SleepsBetween(i, j)) = 1
            /\ \A k \in SleepsBetween(i, j) : trace[k].secs = PollInterval

\* a result that carries a ResultID and no address-type tag: what
\* geocode_addresses returns when the candidate count is not two
IsUntagged(l) == HasResultID(l) /\ ~HasAddressType(l)

\* C16: match_work_and_home treats every untagged result as unmatched: the
\* result is neither in origins nor in destinations and its employee
\* identifier is flagged.
C16_UntaggedUnmatched ==
    pc = "done" =>
        \A i \in 1..Len(locations) :
            IsUntagged(locations[i]) =>
                /\ ~InList(locations[i], origins)
                /\ ~InList(locations[i], destinations)
                /\ InList(locations[i].rid, flagged_employees)

----------------------------------------------------------------------------
\* Properties of write_output

\* C13: write_output produces len(features) + len(flagged_employees) rows:
\* first one row per route feature, in feature order, with the route's name
\* and metrics and Flagged false, then one row per flagged employee, in
\* flagging order, with zeros and Flagged true.  The file written holds the
\* header and exactly these rows; when writing it fails part-way it holds the
\* first of them, in the same order.
C13_FeatureRowsThenFlaggedRows ==
    write_pc = "returned" =>
        /\ Len(rows) = Len(features) + Len(flagged_employees)
        /\ \A k \in 1..Len(features) :
              /\ rows[k][1] = features[k].RouteName
              /\ rows[k][2] = features[k].Total_Miles
              /\ rows[k][3] = features[k].Total_Minutes
              /\ rows[k][8] = FALSE
        /\ \A j \in 1..Len(flagged_employees) :
              rows[Len(features) + j] = <<flagged_employees[j], 0, 0, 0, 0, 0, 0, TRUE>>
        /\ output_file.complete =>
              output_file.header = HEADER /\ output_file.rows = rows
        /\ (output_file.written /\ ~output_file.complete) =>
              /\ Len(output_file.rows) < Len(rows) \/ rows = <<>>
              /\ output_file.rows = SubSeq(rows, 1, Len(output_file.rows))

\* two route features and one flagged employee: three rows were written
C13_Witness ==
    /\ write_pc = "returned"
    /\ Len(features) = 2
    /\ Len(flagged_employees) = 1
    /\ output_file.complete
    /\ Len(output_file.rows) = 3
    /\ output_file.rows[3][8] = TRUE

\* the From and To ends of the route carry opposite address-type tags
OppositeTags(f) ==
    /\ "To_Employee_Address_Type" \in f.keys
    /\ {f.From_Type, f.To_Type} = {WORK_ADDRESS_TYPE, HOME_ADDRESS_TYPE}

\* the same route with its two ends exchanged
SwapEnds(f) ==
    [f EXCEPT !.From_Type = f.To_Type, !.To_Type = f.From_Type,
              !.From_Lat = f.To_Lat, !.From_Lon = f.To_Lon,
              !.To_Lat = f.From_Lat, !.To_Lon = f.From_Lon]

\* C14: for a route whose ends carry opposite tags, the row has the coordinates
\* of the WORK-tagged end in the work columns and those of the HOME-tagged end
\* in the home columns, whichever end is From; the row is the same for the
\* route submitted the other way round.
C14_WorkEndInWorkColumns ==
    \A k \in 1..Len(rows) :
        (k <= Len(features) /\ OppositeTags(features[k])) =>
            LET f == features[k] IN
            /\ f.From_Type = WORK_ADDRESS_TYPE =>
                  <<rows[k][4], rows[k][5]>> = <<f.From_Lat, f.From_Lon>>
            /\ f.To_Type = WORK_ADDRESS_TYPE =>
                  <<rows[k][4], rows[k][5]>> = <<f.To_Lat, f.To_Lon>>
            /\ f.From_Type = HOME_ADDRESS_TYPE =>
                  <<rows[k][6], rows[k][7]>> = <<f.From_Lat, f.From_Lon>>
            /\ f.To_Type = HOME_ADDRESS_TYPE =>
                  <<rows[k][6], rows[k][7]>> = <<f.To_Lat, f.To_Lon>>
            /\ rows[k] = FeatureRow(SwapEnds(f))

\* a route whose From end is the HOME one was written
C14_Witness ==
    /\ write_pc = "returned"
    /\ output_file.complete
    /\ Len(features) >= 1
    /\ OppositeTags(features[1])
    /\ features[1].From_Type = HOME_ADDRESS_TYPE
    /\ <<rows[1][4], rows[1][5]>> = <<features[1].To_Lat, features[1].To_Lon>>

----------------------------------------------------------------------------
\* Properties of read_worker_info

\* every row can be read and no two rows carry the same employee number
DistinctEmployees ==
    /\ \A i \in 1..Len(worker_info) : ReadableWorker(worker_info[i])
    /\ \A i, j \in 1..Len(worker_info) :
          i # j => worker_info[i].employee # worker_info[j].employee

\* C20: for a roster with distinct employee numbers the record IDs built by
\* read_worker_info are pairwise distinct across the roster, and the two IDs
\* of one employee differ by exactly 1.
C20_RecordIdsDistinct ==
    (read_pc = "returned" /\ DistinctEmployees) =>
        /\ \A i \in 1..Len(records_list) :
              records_list[i][2].OBJECTID - records_list[i][1].OBJECTID = 1
        /\ \A i, j \in 1..Len(records_list) : \A a, b \in 1..2 :
              <<i, a>> # <<j, b>> =>
                  records_list[i][a].OBJECTID # records_list[j][b].OBJECTID

----------------------------------------------------------------------------
\* Properties of main

\* the employee identifiers that occur in the geocoded pool
PoolEmployees == { locations[i].rid : i \in { k \in 1..Len(locations) : HasResultID(locations[k]) } }

\* the rows of the output that carry employee e
RowsOf(e) == { k \in 1..Len(rows) : rows[k][1] = e }

\* main has ended, by a return or by an exception
MainEnded ==
    main_pc \in {"return_config", "return_records", "return_url", "return_mode",
                 "return_features", "finished", "raised"}

\* C12: in a run where the analysis job succeeds with one route feature per
\* matched pair, every employee identifier of the geocoded pool is in exactly
\* one output row.
C12_EveryEmployeeInOneRow ==
    (/\ MainEnded
     /\ job_result = "features"
     /\ features = RouteFeatures(origins, destinations)) =>
        \A e \in PoolEmployees : Cardinality(RowsOf(e)) = 1

\* C15: when the geocoder returns zero candidates for a request, main does not
\* end by an exception: it goes on with the next request.
C15_ZeroCandidatesTolerated ==
    (res_json.kind = "locations" /\ Len(res_json.locations) = 0) =>
        main_pc # "raised"

\* C17: no exception leaves a component uncaught and main ends by returning.
C17_MainNeverRaises == main_pc # "raised"

----------------------------------------------------------------------------
\* Properties of the collections match_work_and_home returns

\* the ResultIDs of a list of geocode results, in list order
IdsOf(list) == [k \in 1..Len(list) |-> list[k].rid]

\* no value occurs twice in the list
NoDuplicates(list) ==
    \A i, j \in 1..Len(list) : list[i] = list[j] => i = j

\* C23: the collections match_work_and_home returns are disjoint and
\* duplicate-free by employee: no identifier of origins or destinations is in
\* flagged_employees, no identifier occurs twice in origins and none occurs
\* twice in flagged_employees.  It holds after every statement of the loop,
\* hence for the lists returned at line 250.
C23_ReturnedDisjointNoDuplicates ==
    /\ \A k \in 1..Len(origins) : ~InList(origins[k].rid, flagged_employees)
    /\ \A k \in 1..Len(destinations) : ~InList(destinations[k].rid, flagged_employees)
    /\ NoDuplicates(IdsOf(origins))
    /\ NoDuplicates(flagged_employees)

\* returned with one pair matched and another employee flagged, from a pool of
\* three results in which the flagged employee's result comes first
C23_Witness ==
    /\ pc = "done"
    /\ Len(locations) = 3
    /\ Len(origins) = 1
    /\ Len(destinations) = 1
    /\ Len(flagged_employees) = 1
    /\ HasResultID(locations[1])
    /\ locations[1].rid = flagged_employees[1]
    /\ origins[1].rid # flagged_employees[1]

----------------------------------------------------------------------------
\* Isolation between employees in match_work_and_home

\* e has exactly two results, both with every field, with different addresses,
\* opposite tags and non-zero scores
ValidPair(e) ==
    /\ Cardinality(RecordsOf(locations, e)) = 2
    /\ \A i \in RecordsOf(locations, e) :
          IsWellFormed(locations[i]) /\ locations[i].score # 0
    /\ \E i, j \in RecordsOf(locations, e) :
          /\ locations[i].addr # locations[j].addr
          /\ locations[i].tag # locations[j].tag

\* some result of the pool lacks a field and does not carry e as ResultID
MalformedElsewhere(e) ==
    \E i \in 1..Len(locations) :
        /\ ~IsWellFormed(locations[i])
        /\ i \notin RecordsOf(locations, e)

\* C22: a malformed or untagged result never causes an employee with another
\* identifier, whose own two results form a valid pair, to be flagged or left
\* unmatched, wherever the malformed result sits in the pool: at the return
\* that employee is in origins and destinations and is not flagged.
C22_MalformedRecordIsolated ==
    pc = "done" =>
        \A e \in EmployeeIds :
            (ValidPair(e) /\ MalformedElsewhere(e)) =>
                /\ ~InList(e, flagged_employees)
                /\ \E k \in 1..Len(origins) : origins[k].rid = e
                /\ \E k \in 1..Len(destinations) : destinations[k].rid = e

----------------------------------------------------------------------------
\* Termination of the polling loop of calculate_commute

\* the answers to a status poll that report a terminal outcome: Succeeded,
\* Failed, or an error whose code is not 498
TerminalResponses ==
    {"esriJobSucceeded", "esriJobSucceededNoResults"} \cup FailureResponses

\* some status poll made so far was answered with a terminal outcome
TerminalAnswered ==
    \E k \in 1..Len(trace) : IsPoll(trace[k]) /\ trace[k].response \in TerminalResponses

\* calculate_commute has returned after a submission that gave a job id
ReturnedAfterSubmission == job_pc = "returned" /\ job_id = 1

\* the status left the set tested at line 392
StatusLeftLoopSet == job_status \notin {"esriJobSubmitted", "esriJobExecuting"}

\* the last call made raised an exception inside the loop: the status request
\* (line 393) or generate_token (line 413)
LastCallRaised ==
    /\ Len(trace) > 0
    /\ \/ IsPoll(trace[Len(trace)]) /\ trace[Len(trace)].response = "exception"
       \/ IsGenerate(trace[Len(trace)]) /\ trace[Len(trace)].token = TokenRaised

\* C21 as claimed: once a status poll is answered with a terminal outcome
\* calculate_commute eventually returns, and after a successful submission it
\* returns only on such an answer or when the status has left the
\* Submitted/Executing set.
C21_ReturnsOnlyOnTerminalAnswer ==
    /\ TerminalAnswered ~> (job_pc = "returned")
    /\ [](ReturnedAfterSubmission => (TerminalAnswered \/ StatusLeftLoopSet))

\* C21 amended: once a status poll is answered with a terminal outcome
\* calculate_commute eventually returns, however many in-progress and 498
\* answers came first; after a successful submission it returns only on such
\* an answer, when the status has left the Submitted/Executing set, or when
\* a call made inside the loop (the status request, generate_token) raised an
\* exception (lines 420-423).
C21_PollingReturns ==
    /\ TerminalAnswered ~> (job_pc = "returned")
    /\ [](ReturnedAfterSubmission =>
            (TerminalAnswered \/ StatusLeftLoopSet \/ LastCallRaised))

\* returned after an in-progress answer, a 498 answer whose token regeneration
\* failed, another in-progress answer and then a terminal answer
C21_Witness ==
    /\ job_pc = "returned"
    /\ Len(PollResponses) = 4
    /\ PollResponses[1] = "esriJobExecuting"
    /\ PollResponses[2] = "error498"
    /\ PollResponses[3] = "esriJobSubmitted"
    /\ PollResponses[4] \in TerminalResponses
    /\ token = NoToken


====
